---- MODULE Spec2Model ----
(***************************************************************************)
(* Model of src/models/nf_tokenizer_worker.py: the persistent tokenizer    *)
(* worker.  The worker imports the tokenizer library, constructs the       *)
(* tokenizer once, writes a startup signal, and then answers one JSON      *)
(* request per stdin line with one JSON response per stdout line until it  *)
(* reads SHUTDOWN or end-of-stream.  The one-shot scripts nf_tokenize.py   *)
(* and nf_detokenize.py are modelled at the end, under ScriptSpec.         *)
(***************************************************************************)
EXTENDS Integers, Sequences, FiniteSets, TLC

VARIABLES
    pc,           \* position of the script
    stdin,        \* lines the caller has put on the worker's stdin, unread
    line,         \* module global `line`: what readline() returned last
    request_id,   \* module global `request_id` (PyUnbound until assigned)
    tokenizer,    \* module global `tokenizer`: the capability and what it
                  \* has answered so far
    stdout,       \* lines written to stdout, oldest first
    stderr,       \* lines written to stderr (the interpreter's traceback)
    exitStatus,   \* process exit status, NotExited while running
    consumed,     \* history: the lines readline() has returned, in order
    calls,        \* history: the capability calls made, in order
    script        \* a run of a one-shot script (nf_tokenize.py or
                  \* nf_detokenize.py): its inputs, position and outputs

vars == <<pc, stdin, line, request_id, tokenizer, stdout, stderr,
          exitStatus, consumed, calls, script>>

(***************************************************************************)
(* Bounds of the model.                                                    *)
(***************************************************************************)
MaxLines == 3

\* the values the model draws request fields and capability results from
Ids == {"a"}
EncodeResults == {<<>>, <<1, 2>>}
DecodeResults == {"", "xy"}

(***************************************************************************)
(* Python values.                                                          *)
(***************************************************************************)
PyNone == "<None>"          \* the value None
PyUnbound == "<unbound>"    \* a name that has never been assigned
NotExited == -1

MODEL_NAME == "codet5p-220m"

\* str(x) as used by the f-strings of the worker
Str(x) == IF x = PyNone THEN "None" ELSE x

\* dict.get(key, default)
Get(d, key, default) == IF key \in DOMAIN d THEN d[key] ELSE default

(***************************************************************************)
(* Input lines.  A line is described by what its text is: the JSON         *)
(* encoding of a value, text that is no JSON document, or white space      *)
(* only.  The empty string is what readline() returns at end-of-stream.    *)
(***************************************************************************)
EOF == [kind |-> "eof"]
NoLine == [kind |-> "unbound"]    \* `line` before the first readline()

MkDict(keys, c, i, p) ==
    [f \in keys |-> CASE f = "command" -> c
                      [] f = "id" -> i
                      [] f = "text" -> p
                      [] f = "tokens" -> p]

Commands == {"TOKENIZE", "DETOKENIZE", "PING", "SHUTDOWN", "FOO"}

\* the request objects of the model: with an id, every command and the
\* two payloads; without an id, no payload and no SHUTDOWN or FOO
AllDicts ==
    { MkDict(k, c, i, "x") :
        k \in SUBSET {"command", "id"}, c \in Commands, i \in Ids }
    \cup { MkDict(k \cup {"command", "text"}, "TOKENIZE", i, "x") :
        k \in SUBSET {"id"}, i \in Ids }
    \cup { MkDict(k \cup {"command", "tokens"}, "DETOKENIZE", i, <<1>>) :
        k \in SUBSET {"id"}, i \in Ids }

Dicts ==
    { d \in AllDicts :
        "id" \notin DOMAIN d =>
            /\ DOMAIN d \subseteq {"command"}
            /\ Get(d, "command", PyNone) \notin {"SHUTDOWN", "FOO"} }

JsonLines ==
    { [kind |-> "json", value |-> [type |-> "dict", val |-> d]] : d \in Dicts }
    \cup { [kind |-> "json", value |-> [type |-> "list", val |-> <<1>>]] }

Lines == JsonLines \cup { [kind |-> "garbage"], [kind |-> "blank"] }

RECURSIVE SeqsUpTo(_, _)
SeqsUpTo(S, n) ==
    IF n = 0 THEN {<<>>}
    ELSE LET shorter == SeqsUpTo(S, n - 1)
         IN  shorter \cup { Append(s, e) : s \in {t \in shorter : Len(t) = n - 1}, e \in S }

\* the emptiness test taken after stripping: `not line.strip()`
IsEmptyLine_Stripped(l) == l.kind \in {"eof", "blank"}

\* `not line`
IsEmptyLine(l) == l.kind = "eof"

\* json.loads(line.strip()): the decoded value, or JSONDecodeError
Loads(l) ==
    IF l.kind = "json"
    THEN [raises |-> FALSE, value |-> l.value]
    ELSE [raises |-> TRUE, value |-> [type |-> "none", val |-> <<>>]]

IsDict(v) == v.type = "dict"

(***************************************************************************)
(* The tokenizer capability.  encode and decode are functions of their     *)
(* argument that return a value or raise; the model fixes the outcome for  *)
(* an argument the first time the worker calls with it.                    *)
(***************************************************************************)
NoMemo == [a \in {} |-> a]

EncodeOutcomes ==
    { [raises |-> FALSE, val |-> r] : r \in EncodeResults }
    \cup { [raises |-> TRUE, val |-> <<>>] }

DecodeOutcomes ==
    { [raises |-> FALSE, val |-> r] : r \in DecodeResults }
    \cup { [raises |-> TRUE, val |-> ""] }

Remember(memo, arg, outcome) ==
    [a \in DOMAIN memo \cup {arg} |-> IF a = arg THEN outcome ELSE memo[a]]

\* the outcomes tokenizer.encode(text) can have in this run
EncodeCall(text) ==
    IF text \in DOMAIN tokenizer.enc THEN {tokenizer.enc[text]}
    ELSE EncodeOutcomes

\* the outcomes tokenizer.decode(tokens) can have in this run
DecodeCall(tokens) ==
    IF tokens \in DOMAIN tokenizer.dec THEN {tokenizer.dec[tokens]}
    ELSE DecodeOutcomes

(***************************************************************************)
(* Lines the worker writes.                                                *)
(***************************************************************************)
ReadySignal == [status |-> "ready", model |-> MODEL_NAME]

ErrorSignal(e) == [status |-> "error", message |-> <<"Tokenizer load failed: ", e>>]

TokenizeResponse(rid, token_ids) ==
    [id |-> rid, status |-> "ok", result |-> token_ids, length |-> Len(token_ids)]

DetokenizeResponse(rid, text) ==
    [id |-> rid, status |-> "ok", result |-> text, length |-> Len(text)]

\* PingResponse that reports "pong" under message
PingResponse_AsMessage(rid) ==
    [id |-> rid, status |-> "ok", message |-> "pong", model |-> MODEL_NAME]

PingResponse(rid) ==
    [id |-> rid, status |-> "ok", result |-> "pong", model |-> MODEL_NAME]

ShutdownResponse(rid) ==
    [id |-> rid, status |-> "ok", result |-> "shutting down"]

\* UnknownCommandResponse whose message leaves the command out
UnknownCommandResponse_NoCommand(rid, command) ==
    [id |-> rid, status |-> "error", message |-> <<"Unknown command: ", "">>]

UnknownCommandResponse(rid, command) ==
    [id |-> rid, status |-> "error", message |-> <<"Unknown command: ", Str(command)>>]

\* InvalidJSONResponse that echoes whatever id is bound
InvalidJSONResponse_EchoesBoundId(e) ==
    [id |-> IF request_id # PyUnbound THEN request_id ELSE "unknown",
     status |-> "error", message |-> <<"Invalid JSON: ", e>>]

InvalidJSONResponse(e) ==
    [id |-> "unknown", status |-> "error", message |-> <<"Invalid JSON: ", e>>]

\* request_id if 'request_id' in locals() else "unknown"
HandlerId(rid) == IF rid # PyUnbound THEN rid ELSE "unknown"

\* ProcessingErrorResponse that gives up on the id
ProcessingErrorResponse_NoId(rid, e) ==
    [id |-> "unknown", status |-> "error", message |-> <<"Processing error: ", e>>]

ProcessingErrorResponse(rid, e) ==
    [id |-> HandlerId(rid), status |-> "error", message |-> <<"Processing error: ", e>>]

\* print(json.dumps(obj), flush=True)
WriteLine(obj) == stdout' = Append(stdout, obj)

\* no one-shot script runs beside the worker
NoScript == [pc |-> "idle"]

(***************************************************************************)
(* Initial state: the process has been spawned, nothing has run.           *)
(***************************************************************************)
Init ==
    /\ pc = "import"
    /\ stdin \in SeqsUpTo(Lines, MaxLines)
    /\ line = NoLine
    /\ request_id = PyUnbound
    /\ tokenizer = [loaded |-> FALSE, enc |-> NoMemo, dec |-> NoMemo]
    /\ stdout = <<>>
    /\ stderr = <<>>
    /\ exitStatus = NotExited
    /\ consumed = <<>>
    /\ calls = <<>>
    /\ script = NoScript

(***************************************************************************)
(* Startup.                                                                *)
(***************************************************************************)
\* from transformers import AutoTokenizer, succeeding
ImportOk ==
    /\ pc = "import"
    /\ pc' = "load"
    /\ UNCHANGED <<script, stdin, line, request_id, tokenizer, stdout, stderr,
                   exitStatus, consumed, calls>>

\* the import raising: the interpreter prints the traceback and exits 1
ImportFails ==
    /\ pc = "import"
    /\ stderr' = Append(stderr, "Traceback: ImportError")
    /\ exitStatus' = 1
    /\ pc' = "exited"
    /\ UNCHANGED <<script, stdin, line, request_id, tokenizer, stdout, consumed, calls>>

\* AutoTokenizer.from_pretrained returns; the ready signal is written
LoadOk ==
    /\ pc = "load"
    /\ tokenizer' = [tokenizer EXCEPT !.loaded = TRUE]
    /\ WriteLine(ReadySignal)
    /\ pc' = "read"
    /\ UNCHANGED <<script, stdin, line, request_id, stderr, exitStatus, consumed, calls>>

\* LoadFails without the sys.exit(1): the script falls into the loop
LoadFails_EntersLoop ==
    /\ pc = "load"
    /\ WriteLine(ErrorSignal("LoadError"))
    /\ pc' = "read"
    /\ UNCHANGED <<script, stdin, line, request_id, tokenizer, stderr, exitStatus,
                   consumed, calls>>

\* AutoTokenizer.from_pretrained raises; error signal, sys.exit(1)
LoadFails ==
    /\ pc = "load"
    /\ WriteLine(ErrorSignal("LoadError"))
    /\ exitStatus' = 1
    /\ pc' = "exited"
    /\ UNCHANGED <<script, stdin, line, request_id, tokenizer, stderr, consumed, calls>>

(***************************************************************************)
(* The command loop.                                                       *)
(***************************************************************************)
\* what sys.stdin.readline() returns: the next line, "" at end-of-stream
NextLine == IF stdin = <<>> THEN EOF ELSE Head(stdin)

\* ReadLine that answers the empty read like a malformed line before leaving
ReadLine_EofAnswered ==
    /\ pc = "read"
    /\ IF IsEmptyLine(NextLine)
       THEN /\ line' = NextLine
            /\ WriteLine(InvalidJSONResponse("JSONDecodeError"))
            /\ pc' = "exit"
            /\ UNCHANGED <<stdin, consumed>>
       ELSE /\ line' = NextLine
            /\ stdin' = Tail(stdin)
            /\ consumed' = Append(consumed, NextLine)
            /\ pc' = "dispatch"
            /\ UNCHANGED stdout
    /\ UNCHANGED <<script, request_id, tokenizer, stderr, exitStatus, calls>>

\* line = sys.stdin.readline(); if not line: break
ReadLine ==
    /\ pc = "read"
    /\ IF IsEmptyLine(NextLine)
       THEN /\ line' = NextLine
            /\ pc' = "exit"
            /\ UNCHANGED <<stdin, consumed>>
       ELSE /\ line' = NextLine
            /\ stdin' = Tail(stdin)
            /\ consumed' = Append(consumed, NextLine)
            /\ pc' = "dispatch"
    /\ UNCHANGED <<script, request_id, tokenizer, stdout, stderr, exitStatus, calls>>

\* HandleInvalidJSON that gives up the loop after answering
HandleInvalidJSON_Breaks ==
    /\ pc = "dispatch"
    /\ Loads(line).raises
    /\ WriteLine(InvalidJSONResponse("JSONDecodeError"))
    /\ pc' = "exit"
    /\ UNCHANGED <<script, stdin, line, request_id, tokenizer, stderr, exitStatus,
                   consumed, calls>>

\* json.loads raises JSONDecodeError
HandleInvalidJSON ==
    /\ pc = "dispatch"
    /\ Loads(line).raises
    /\ WriteLine(InvalidJSONResponse("JSONDecodeError"))
    /\ pc' = "read"
    /\ UNCHANGED <<script, stdin, line, request_id, tokenizer, stderr, exitStatus,
                   consumed, calls>>

\* HandleNotObject with the exception swallowed: no response is written
HandleNotObject_Silent ==
    /\ pc = "dispatch"
    /\ ~Loads(line).raises
    /\ ~IsDict(Loads(line).value)
    /\ pc' = "read"
    /\ UNCHANGED <<script, stdin, line, request_id, tokenizer, stdout, stderr,
                   exitStatus, consumed, calls>>

\* the decoded value has no .get: AttributeError before request_id is assigned
HandleNotObject ==
    /\ pc = "dispatch"
    /\ ~Loads(line).raises
    /\ ~IsDict(Loads(line).value)
    /\ WriteLine(ProcessingErrorResponse(request_id, "AttributeError"))
    /\ pc' = "read"
    /\ UNCHANGED <<script, stdin, line, request_id, tokenizer, stderr, exitStatus,
                   consumed, calls>>

\* the line decoded to a dict: the request the branches below work on
IsRequest == pc = "dispatch" /\ ~Loads(line).raises /\ IsDict(Loads(line).value)
request == Loads(line).value.val
\* command with a default: a request without one is taken for a PING
command_DefaultsToPing == Get(request, "command", "PING")
command == Get(request, "command", PyNone)
\* NewRequestId that keeps an id once one is bound
NewRequestId_KeepsFirst ==
    IF request_id # PyUnbound THEN request_id ELSE Get(request, "id", "unknown")
NewRequestId == Get(request, "id", "unknown")

\* HandleTokenize that indexes request["text"]: KeyError when it is absent
HandleTokenize_RequiresText ==
    /\ IsRequest
    /\ command = "TOKENIZE"
    /\ request_id' = NewRequestId
    /\ IF "text" \in DOMAIN request
       THEN \E o \in EncodeCall(request.text) :
             /\ tokenizer' = [tokenizer EXCEPT !.enc = Remember(@, request.text, o)]
             /\ calls' = Append(calls, [op |-> "encode", arg |-> request.text,
                                        at |-> Len(consumed), raised |-> o.raises])
             /\ IF o.raises
                THEN WriteLine(ProcessingErrorResponse(request_id', "CapabilityError"))
                ELSE WriteLine(TokenizeResponse(request_id', o.val))
       ELSE /\ WriteLine(ProcessingErrorResponse(request_id', "KeyError"))
            /\ UNCHANGED <<tokenizer, calls>>
    /\ pc' = "read"
    /\ UNCHANGED <<script, stdin, line, stderr, exitStatus, consumed>>

HandleTokenize ==
    /\ IsRequest
    /\ command = "TOKENIZE"
    /\ request_id' = NewRequestId
    /\ LET text == Get(request, "text", "")
       IN  \E o \in EncodeCall(text) :
             /\ tokenizer' = [tokenizer EXCEPT !.enc = Remember(@, text, o)]
             /\ calls' = Append(calls, [op |-> "encode", arg |-> text, at |-> Len(consumed),
                                      raised |-> o.raises])
             /\ IF o.raises
                THEN WriteLine(ProcessingErrorResponse(request_id', "CapabilityError"))
                ELSE WriteLine(TokenizeResponse(request_id', o.val))
    /\ pc' = "read"
    /\ UNCHANGED <<script, stdin, line, stderr, exitStatus, consumed>>

HandleDetokenize ==
    /\ IsRequest
    /\ command = "DETOKENIZE"
    /\ request_id' = NewRequestId
    /\ LET tokens == Get(request, "tokens", <<>>)
       IN  \E o \in DecodeCall(tokens) :
             /\ tokenizer' = [tokenizer EXCEPT !.dec = Remember(@, tokens, o)]
             /\ calls' = Append(calls, [op |-> "decode", arg |-> tokens, at |-> Len(consumed),
                                      raised |-> o.raises])
             /\ IF o.raises
                THEN WriteLine(ProcessingErrorResponse(request_id', "CapabilityError"))
                ELSE WriteLine(DetokenizeResponse(request_id', o.val))
    /\ pc' = "read"
    /\ UNCHANGED <<script, stdin, line, stderr, exitStatus, consumed>>

\* HandlePing that constructs the tokenizer anew
HandlePing_ReloadsTokenizer ==
    /\ IsRequest
    /\ command = "PING"
    /\ request_id' = NewRequestId
    /\ tokenizer' = [tokenizer EXCEPT !.enc = NoMemo, !.dec = NoMemo]
    /\ WriteLine(PingResponse(request_id'))
    /\ pc' = "read"
    /\ UNCHANGED <<script, stdin, line, stderr, exitStatus, consumed, calls>>

HandlePing ==
    /\ IsRequest
    /\ command = "PING"
    /\ request_id' = NewRequestId
    /\ WriteLine(PingResponse(request_id'))
    /\ pc' = "read"
    /\ UNCHANGED <<script, stdin, line, tokenizer, stderr, exitStatus, consumed, calls>>

\* HandleShutdown without the break
HandleShutdown_NoBreak ==
    /\ IsRequest
    /\ command = "SHUTDOWN"
    /\ request_id' = NewRequestId
    /\ WriteLine(ShutdownResponse(request_id'))
    /\ pc' = "read"
    /\ UNCHANGED <<script, stdin, line, tokenizer, stderr, exitStatus, consumed, calls>>

HandleShutdown ==
    /\ IsRequest
    /\ command = "SHUTDOWN"
    /\ request_id' = NewRequestId
    /\ WriteLine(ShutdownResponse(request_id'))
    /\ pc' = "exit"
    /\ UNCHANGED <<script, stdin, line, tokenizer, stderr, exitStatus, consumed, calls>>

HandleUnknown ==
    /\ IsRequest
    /\ command \notin {"TOKENIZE", "DETOKENIZE", "PING", "SHUTDOWN"}
    /\ request_id' = NewRequestId
    /\ WriteLine(UnknownCommandResponse(request_id', command))
    /\ pc' = "read"
    /\ UNCHANGED <<script, stdin, line, tokenizer, stderr, exitStatus, consumed, calls>>

\* sys.exit(0) after the loop
CleanExit ==
    /\ pc = "exit"
    /\ exitStatus' = 0
    /\ pc' = "exited"
    /\ UNCHANGED <<script, stdin, line, request_id, tokenizer, stdout, stderr,
                   consumed, calls>>

Next ==
    \/ ImportOk
    \/ ImportFails
    \/ LoadOk
    \/ LoadFails
    \/ ReadLine
    \/ HandleInvalidJSON
    \/ HandleNotObject
    \/ HandleTokenize
    \/ HandleDetokenize
    \/ HandlePing
    \/ HandleShutdown
    \/ HandleUnknown
    \/ CleanExit

Spec == Init /\ [][Next]_vars

\* WorkerState of the dispatcher
State ==
    CASE pc \in {"import", "load"} -> "STARTING"
      [] pc \in {"read", "dispatch"} -> "READY"
      [] OTHER -> "TERMINATED"

TypeOK ==
    /\ pc \in {"import", "load", "read", "dispatch", "exit", "exited"}
    /\ exitStatus \in {NotExited, 0, 1}
    /\ Len(consumed) + Len(stdin) <= MaxLines

(***************************************************************************)
(* Vocabulary of the properties.                                           *)
(***************************************************************************)
IsStartupSignal(o) == "id" \notin DOMAIN o /\ o.status \in {"ready", "error"}
IsResponse(o) == "id" \in DOMAIN o /\ o.status \in {"ok", "error"}

StartupSignals == { k \in 1..Len(stdout) : IsStartupSignal(stdout[k]) }

\* the line is the JSON encoding of an object
IsObjectLine(l) == l.kind = "json" /\ l.value.type = "dict"

\* the command of an object line, PyNone when it has none
CommandOf(l) == Get(l.value.val, "command", PyNone)

\* the id a response to the line has to carry
ExpectedId(l) ==
    IF IsObjectLine(l) THEN Get(l.value.val, "id", "unknown") ELSE "unknown"

IsValidRequest(l) ==
    IsObjectLine(l) /\ CommandOf(l) \in {"TOKENIZE", "DETOKENIZE", "PING"}

\* the loop has been left, or never entered, and the process is gone
Terminated == pc = "exited"

\* the k-th response line (the startup signal is line 1 of stdout)
Response(k) == stdout[k + 1]
Answered == Len(stdout) - 1

(***************************************************************************)
(* C1: in every run the first line on stdout is a startup signal, exactly  *)
(* one startup signal is ever written, and no response precedes it.  The   *)
(* statement as claimed: a process that has left startup has written       *)
(* exactly one startup signal, first.                                      *)
(***************************************************************************)
C1_StartupSignalOnce ==
    /\ stdout # <<>> => IsStartupSignal(stdout[1])
    /\ \A k \in 2..Len(stdout) : IsResponse(stdout[k])
    /\ State # "STARTING" => Cardinality(StartupSignals) = 1

(***************************************************************************)
(* C2: while READY each line read gets exactly one response line, written  *)
(* before the next line is read: before every read the worker has written  *)
(* one response per line read so far, and while it works on a line         *)
(* exactly the response to that line is missing.                           *)
(***************************************************************************)
C2_OneResponsePerLine ==
    /\ pc = "read" => Answered = Len(consumed)
    /\ pc = "dispatch" => Answered = Len(consumed) - 1
    /\ (tokenizer.loaded /\ pc \in {"exit", "exited"}) => Answered = Len(consumed)
    /\ State = "READY" => \A k \in 1..Answered : IsResponse(Response(k))

C2_Witness ==
    /\ pc = "read"
    /\ Len(consumed) = 3
    /\ consumed[1].kind = "garbage"
    /\ consumed[2].kind = "json" /\ consumed[2].value.type = "list"
    /\ IsObjectLine(consumed[3]) /\ CommandOf(consumed[3]) = "TOKENIZE"
    /\ calls # <<>> /\ calls[Len(calls)].raised

(***************************************************************************)
(* C3: N valid requests (TOKENIZE, DETOKENIZE, PING) after a successful    *)
(* startup produce exactly N responses, the k-th carrying the id of the    *)
(* k-th request.                                                           *)
(***************************************************************************)
C3_ResponsesInOrder ==
    (/\ pc \in {"read", "exit", "exited"}
     /\ tokenizer.loaded
     /\ \A k \in 1..Len(consumed) : IsValidRequest(consumed[k]))
    => /\ Answered = Len(consumed)
       /\ \A k \in 1..Len(consumed) : Response(k).id = ExpectedId(consumed[k])

C3_Witness ==
    /\ pc = "read"
    /\ Len(consumed) = 3
    /\ \A k \in 1..3 : IsValidRequest(consumed[k])
    /\ "id" \in DOMAIN consumed[1].value.val
    /\ "id" \notin DOMAIN consumed[2].value.val
    /\ "id" \in DOMAIN consumed[3].value.val
    /\ Response(3).id = "a"

(***************************************************************************)
(* C4: every response carries the id of the line it answers, or "unknown"  *)
(* when that line has no id or is not a JSON object; never the id of an    *)
(* earlier request.                                                        *)
(***************************************************************************)
C4_ResponseIdIsOwn ==
    tokenizer.loaded =>
        \A k \in 1..Answered : Response(k).id = ExpectedId(consumed[k])

(***************************************************************************)
(* C5: when constructing the tokenizer fails, the worker writes exactly    *)
(* one error startup line, reads no line, writes no response and exits     *)
(* with status 1, never becoming READY.                                    *)
(***************************************************************************)
LoadFailed == pc \notin {"import", "load"} /\ ~tokenizer.loaded /\ stderr = <<>>

C5_LoadFailureIsFatal ==
    LoadFailed =>
        /\ Len(stdout) = 1
        /\ IsStartupSignal(stdout[1])
        /\ stdout[1].status = "error"
        /\ "message" \in DOMAIN stdout[1]
        /\ consumed = <<>>
        /\ line = NoLine
        /\ Terminated
        /\ exitStatus = 1

C5_Witness == LoadFailed /\ Len(stdin) = MaxLines

(***************************************************************************)
(* C6: every termination with a non-zero exit status, a failure to load    *)
(* the tokenizer library included, is preceded by exactly one error        *)
(* startup line on stdout; termination by SHUTDOWN or end-of-stream has    *)
(* exit status 0.                                                          *)
(***************************************************************************)
ShutdownRead == IsObjectLine(line) /\ CommandOf(line) = "SHUTDOWN"
EofRead == line.kind = "eof"

C6_FatalErrorSignalledOnce ==
    /\ (Terminated /\ exitStatus # 0) =>
          /\ Len(stdout) = 1
          /\ IsStartupSignal(stdout[1])
          /\ stdout[1].status = "error"
    /\ (Terminated /\ (ShutdownRead \/ EofRead)) => exitStatus = 0

(***************************************************************************)
(* C7: a SHUTDOWN request with id x gets {id: x, status: ok, result:       *)
(* "shutting down"}; after it the worker reads nothing, writes nothing,    *)
(* whatever is pending on stdin, and exits with status 0.                  *)
(***************************************************************************)
ShutdownHandled == ShutdownRead /\ pc \in {"exit", "exited"}

C7_ShutdownStopsWorker ==
    /\ [](ShutdownHandled =>
            /\ Answered = Len(consumed)
            /\ ("id" \in DOMAIN line.value.val =>
                  Response(Answered) = [id |-> line.value.val.id, status |-> "ok",
                                        result |-> "shutting down"])
            /\ (Terminated => exitStatus = 0))
    /\ [][(ShutdownRead /\ pc = "dispatch") => pc' = "exit"]_vars
    /\ [][ShutdownHandled =>
            /\ stdin' = stdin
            /\ consumed' = consumed
            /\ stdout' = stdout
            /\ stderr' = stderr
            /\ (pc = "exit" => (pc' = "exited" /\ exitStatus' = 0))]_vars

C7_Witness ==
    /\ ShutdownHandled
    /\ Terminated
    /\ exitStatus = 0
    /\ "id" \in DOMAIN line.value.val
    /\ stdin # <<>>
    /\ Len(consumed) >= 2

(***************************************************************************)
(* C8: an end-of-stream read in READY writes nothing, leaves the loop and  *)
(* the process exits with status 0, whatever was answered before, error    *)
(* responses included.                                                     *)
(***************************************************************************)
C8_EndOfStreamIsCleanExit ==
    /\ [](EofRead =>
            /\ pc \in {"exit", "exited"}
            /\ Answered = Len(consumed)
            /\ stderr = <<>>
            /\ (Terminated => exitStatus = 0))
    /\ [][(pc = "read" /\ stdin = <<>>) =>
            /\ stdout' = stdout
            /\ stderr' = stderr
            /\ pc' = "exit"
            /\ line'.kind = "eof"]_vars
    /\ [][EofRead =>
            /\ stdout' = stdout
            /\ stderr' = stderr
            /\ (pc = "exit" => (pc' = "exited" /\ exitStatus' = 0))]_vars

C8_Witness ==
    /\ EofRead
    /\ Terminated
    /\ exitStatus = 0
    /\ Len(consumed) >= 2
    /\ \E k \in 1..Answered : Response(k).status = "error"
    /\ \E k \in 1..Answered : Response(k).status = "ok"

(***************************************************************************)
(* C9: a line that is not valid JSON gets exactly one response, status     *)
(* "error" and id "unknown" whatever was answered before, causes no        *)
(* capability call and leaves the worker READY: a valid request right      *)
(* after it is answered with its own id, and with status ok unless its     *)
(* capability call raised.                                                 *)
(***************************************************************************)
NonJson(l) == l.kind \in {"garbage", "blank"}

CallRaisedAt(k) == \E i \in 1..Len(calls) : calls[i].at = k /\ calls[i].raised

C9_InvalidJsonIsRecoverable ==
    /\ [][(pc = "dispatch" /\ NonJson(line)) =>
            /\ Len(stdout') = Len(stdout) + 1
            /\ stdout' = Append(stdout, stdout'[Len(stdout')])
            /\ stdout'[Len(stdout')].id = "unknown"
            /\ stdout'[Len(stdout')].status = "error"
            /\ "message" \in DOMAIN stdout'[Len(stdout')]
            /\ calls' = calls
            /\ tokenizer' = tokenizer
            /\ pc' = "read"]_vars
    /\ [](\A k \in 2..Answered :
            (NonJson(consumed[k - 1]) /\ IsValidRequest(consumed[k])) =>
                /\ Response(k).id = ExpectedId(consumed[k])
                /\ (Response(k).status = "ok" \/ CallRaisedAt(k)))

C9_Witness ==
    /\ pc = "read"
    /\ Len(consumed) = 3
    /\ IsValidRequest(consumed[1]) /\ Response(1).id = "a"
    /\ NonJson(consumed[2]) /\ Response(2).id = "unknown" /\ Response(2).status = "error"
    /\ IsValidRequest(consumed[3]) /\ Response(3).status = "ok" /\ Response(3).id = "a"

(***************************************************************************)
(* C10: when the capability call of a TOKENIZE or DETOKENIZE request       *)
(* raises, exactly one response is written, status "error", the id of the  *)
(* failing request and a message, and the worker stays READY; the worker   *)
(* becomes TERMINATED only by a startup failure, SHUTDOWN or               *)
(* end-of-stream.                                                          *)
(***************************************************************************)
C10_CapabilityFailureIsRecoverable ==
    /\ [](\A i \in 1..Len(calls) :
            calls[i].raised =>
                /\ calls[i].at <= Answered
                /\ Response(calls[i].at).status = "error"
                /\ Response(calls[i].at).id = ExpectedId(consumed[calls[i].at])
                /\ "message" \in DOMAIN Response(calls[i].at))
    /\ [][(calls' # calls /\ calls'[Len(calls')].raised) =>
            /\ Len(stdout') = Len(stdout) + 1
            /\ pc' = "read"
            /\ exitStatus' = NotExited]_vars
    /\ [][(State # "TERMINATED" /\ State' = "TERMINATED") =>
            \/ State = "STARTING"
            \/ (pc = "dispatch" /\ ShutdownRead)
            \/ (pc = "read" /\ stdin = <<>>)]_vars

C10_Witness ==
    /\ pc = "read"
    /\ \E i \in 1..Len(calls) :
         /\ calls[i].raised
         /\ Response(calls[i].at).id = "a"
         /\ calls[i].at < Answered
         /\ Response(Answered).status = "ok"

(***************************************************************************)
(* C11: a request whose command is present but none of TOKENIZE,           *)
(* DETOKENIZE, PING, SHUTDOWN gets exactly the response {id: request id,   *)
(* status: "error", message: "Unknown command: " + command}, causes no     *)
(* capability call and leaves the worker READY.                            *)
(***************************************************************************)
UnknownCommandLine(l) ==
    /\ IsObjectLine(l)
    /\ "command" \in DOMAIN l.value.val
    /\ l.value.val.command \notin {"TOKENIZE", "DETOKENIZE", "PING", "SHUTDOWN"}

C11_UnknownCommandAnswered ==
    [][(pc = "dispatch" /\ UnknownCommandLine(line)) =>
        /\ stdout' = Append(stdout,
                            [id |-> ExpectedId(line), status |-> "error",
                             message |-> <<"Unknown command: ", line.value.val.command>>])
        /\ calls' = calls
        /\ tokenizer' = tokenizer
        /\ pc' = "read"
        /\ exitStatus' = NotExited]_vars

C11_Witness ==
    /\ pc = "read"
    /\ Len(consumed) = 2
    /\ UnknownCommandLine(consumed[1])
    /\ Response(1) = [id |-> "a", status |-> "error",
                      message |-> <<"Unknown command: ", "FOO">>]
    /\ IsValidRequest(consumed[2])
    /\ Response(2).status = "ok"

(***************************************************************************)
(* C12: every PING in READY is answered {status: "ok", result: "pong"}     *)
(* with the model identifier and without a capability call, and PINGs      *)
(* change no later TOKENIZE or DETOKENIZE response: a PING leaves the      *)
(* capability as it was, and every TOKENIZE or DETOKENIZE response is the  *)
(* one its request and the capability determine, whatever was answered     *)
(* before it.                                                              *)
(***************************************************************************)
PingLine(l) == IsObjectLine(l) /\ CommandOf(l) = "PING"
TokenizeLine(l) == IsObjectLine(l) /\ CommandOf(l) = "TOKENIZE"
DetokenizeLine(l) == IsObjectLine(l) /\ CommandOf(l) = "DETOKENIZE"

TextOf(l) == Get(l.value.val, "text", "")
TokensOf(l) == Get(l.value.val, "tokens", <<>>)

\* the response the request line l has to get from the capability cap
DeterminedResponse(l, cap, r) ==
    LET o == IF TokenizeLine(l) THEN cap.enc[TextOf(l)] ELSE cap.dec[TokensOf(l)]
    IN  /\ r.id = ExpectedId(l)
        /\ IF o.raises
           THEN r.status = "error"
           ELSE r = [id |-> ExpectedId(l), status |-> "ok", result |-> o.val,
                     length |-> Len(o.val)]

C12_PingIsPure ==
    /\ [][(pc = "dispatch" /\ PingLine(line)) =>
            /\ stdout' = Append(stdout,
                                [id |-> ExpectedId(line), status |-> "ok",
                                 result |-> "pong", model |-> "codet5p-220m"])
            /\ calls' = calls
            /\ tokenizer' = tokenizer
            /\ pc' = "read"]_vars
    /\ [](\A k \in 1..Answered :
            (TokenizeLine(consumed[k]) \/ DetokenizeLine(consumed[k])) =>
                /\ TokenizeLine(consumed[k]) => TextOf(consumed[k]) \in DOMAIN tokenizer.enc
                /\ DetokenizeLine(consumed[k]) => TokensOf(consumed[k]) \in DOMAIN tokenizer.dec
                /\ DeterminedResponse(consumed[k], tokenizer, Response(k)))

C12_Witness ==
    /\ pc = "read"
    /\ Len(consumed) = 3
    /\ TokenizeLine(consumed[1])
    /\ PingLine(consumed[2])
    /\ consumed[3] = consumed[1]
    /\ Response(2).result = "pong"
    /\ Response(1).status = "ok"
    /\ Response(3) = Response(1)
    /\ Response(1).length = 2

(***************************************************************************)
(* C13: a TOKENIZE request without text is processed as encode("") and a   *)
(* DETOKENIZE request without tokens as decode of the empty sequence;      *)
(* every ok TOKENIZE response has length equal to the number of token ids  *)
(* of its result, every ok DETOKENIZE response length equal to the number  *)
(* of characters of its result.                                            *)
(***************************************************************************)
CallAt(k, op, arg) ==
    \E i \in 1..Len(calls) :
        calls[i].at = k /\ calls[i].op = op /\ calls[i].arg = arg

C13_DefaultsAndLengths ==
    \A k \in 1..Answered :
        /\ (TokenizeLine(consumed[k]) /\ "text" \notin DOMAIN consumed[k].value.val)
              => CallAt(k, "encode", "")
        /\ (DetokenizeLine(consumed[k]) /\ "tokens" \notin DOMAIN consumed[k].value.val)
              => CallAt(k, "decode", <<>>)
        /\ ((TokenizeLine(consumed[k]) \/ DetokenizeLine(consumed[k]))
              /\ Response(k).status = "ok")
              => Response(k).length = Len(Response(k).result)

C13_Witness ==
    /\ pc = "read"
    /\ Len(consumed) = 2
    /\ TokenizeLine(consumed[1]) /\ "text" \notin DOMAIN consumed[1].value.val
    /\ DetokenizeLine(consumed[2]) /\ "tokens" \notin DOMAIN consumed[2].value.val
    /\ Response(1).status = "ok" /\ Response(1).result = <<1, 2>> /\ Response(1).length = 2
    /\ Response(2).status = "ok" /\ Response(2).result = "xy" /\ Response(2).length = 2

(***************************************************************************)
(* C14: every response line of the command loop has an id and a status     *)
(* "ok" or "error"; it has a result and no message exactly when the status *)
(* is "ok", a message and no result exactly when the status is "error".    *)
(***************************************************************************)
WellShaped(r) ==
    /\ "id" \in DOMAIN r
    /\ "status" \in DOMAIN r
    /\ r.status \in {"ok", "error"}
    /\ r.status = "ok" <=> ("result" \in DOMAIN r /\ "message" \notin DOMAIN r)
    /\ r.status = "error" <=> ("message" \in DOMAIN r /\ "result" \notin DOMAIN r)

C14_ResponseShape ==
    tokenizer.loaded => \A k \in 1..Answered : WellShaped(Response(k))

C14_Witness ==
    /\ Answered = 3
    /\ PingLine(consumed[1]) /\ Response(1).status = "ok"
    /\ NonJson(consumed[2]) /\ Response(2).status = "error"
    /\ ShutdownRead /\ Response(3).status = "ok"

(***************************************************************************)
(* C15: for every finite input stream and a successful startup the worker  *)
(* eventually terminates with exit status 0, having answered every line    *)
(* up to and including the first SHUTDOWN, or every line of the stream     *)
(* when there is none; it never terminates while lines before the first    *)
(* SHUTDOWN are unread.  The script is sequential and every step,          *)
(* capability calls included, returns or raises: a step that can be taken  *)
(* is taken.                                                               *)
(***************************************************************************)
\* the input streams of the fair specification: requests that carry a
\* command and an id and no payload, and the three kinds of malformed line
FairLines ==
    { l \in Lines :
        (l.kind = "json" /\ l.value.type = "dict") =>
            DOMAIN l.value.val = {"command", "id"} }

FairInit == Init /\ \A k \in 1..Len(stdin) : stdin[k] \in FairLines

FairSpec == FairInit /\ [][Next]_vars /\ WF_vars(Next)

ShutdownLine(l) == IsObjectLine(l) /\ CommandOf(l) = "SHUTDOWN"

C15_WorkerTerminates ==
    /\ tokenizer.loaded ~> (Terminated /\ exitStatus = 0)
    /\ []((tokenizer.loaded /\ Terminated) =>
            /\ exitStatus = 0
            /\ Answered = Len(consumed)
            /\ \A k \in 1..(Len(consumed) - 1) : ~ShutdownLine(consumed[k])
            /\ (stdin # <<>> => (consumed # <<>> /\ ShutdownLine(consumed[Len(consumed)]))))

C15_Witness ==
    /\ tokenizer.loaded
    /\ Terminated
    /\ exitStatus = 0
    /\ Len(consumed) = 3
    /\ stdin = <<>>
    /\ \E k \in 1..Answered : Response(k).status = "error"

(***************************************************************************)
(* C16: a blank line (a newline or white space only) is not end-of-stream: *)
(* it is read like any line, gets exactly one error response with id       *)
(* "unknown", and the worker stays READY; a read ends the loop only when   *)
(* it returns no characters at all.                                        *)
(***************************************************************************)
C16_BlankLineIsNotEof ==
    /\ [][(pc = "read" /\ stdin # <<>> /\ Head(stdin).kind = "blank") =>
            /\ pc' = "dispatch"
            /\ consumed' = Append(consumed, Head(stdin))
            /\ stdin' = Tail(stdin)
            /\ stdout' = stdout]_vars
    /\ [][(pc = "dispatch" /\ line.kind = "blank") =>
            /\ Len(stdout') = Len(stdout) + 1
            /\ stdout' = Append(stdout, stdout'[Len(stdout')])
            /\ stdout'[Len(stdout')].id = "unknown"
            /\ stdout'[Len(stdout')].status = "error"
            /\ pc' = "read"
            /\ exitStatus' = NotExited]_vars
    /\ [][(pc = "read" /\ pc' # "dispatch") => (stdin = <<>> /\ line'.kind = "eof")]_vars

C16_Witness ==
    /\ pc = "read"
    /\ Len(consumed) = 2
    /\ consumed[1].kind = "blank"
    /\ Response(1).id = "unknown"
    /\ Response(1).status = "error"
    /\ IsValidRequest(consumed[2])
    /\ Response(2).status = "ok"

(***************************************************************************)
(* C17: a request that decodes to an object without a command field        *)
(* causes no capability call, gets exactly one error response that echoes  *)
(* the request's id ("unknown" when the id is absent too), and leaves the  *)
(* worker READY.                                                           *)
(***************************************************************************)
NoCommandLine(l) == IsObjectLine(l) /\ "command" \notin DOMAIN l.value.val

C17_NoCommandAnswered ==
    [][(pc = "dispatch" /\ NoCommandLine(line)) =>
        /\ Len(stdout') = Len(stdout) + 1
        /\ stdout' = Append(stdout, stdout'[Len(stdout')])
        /\ stdout'[Len(stdout')].id =
              (IF "id" \in DOMAIN line.value.val THEN line.value.val.id ELSE "unknown")
        /\ stdout'[Len(stdout')].status = "error"
        /\ calls' = calls
        /\ tokenizer' = tokenizer
        /\ pc' = "read"
        /\ exitStatus' = NotExited]_vars

C17_Witness ==
    /\ pc = "read"
    /\ Len(consumed) = 2
    /\ NoCommandLine(consumed[1]) /\ DOMAIN consumed[1].value.val = {}
    /\ Response(1).id = "unknown" /\ Response(1).status = "error"
    /\ NoCommandLine(consumed[2]) /\ DOMAIN consumed[2].value.val = {"id"}
    /\ Response(2).id = "a" /\ Response(2).status = "error"
    /\ calls = <<>>

(***************************************************************************)
(* The one-shot scripts src/models/nf_tokenize.py and nf_detokenize.py.    *)
(* A run takes its command line and the content of its stdin, and ends     *)
(* with what it wrote to stdout and stderr and an exit status.             *)
(***************************************************************************)
MaxArgc == 3

workerVars == <<pc, stdin, line, request_id, tokenizer, stdout, stderr,
                exitStatus, consumed, calls>>

ScriptNames == {"nf_tokenize", "nf_detokenize"}

\* the value of data.get("token_ids"): None, a list of ids, or a number
NoTokenIds == [type |-> "null", val |-> <<>>]
TokenIdValues ==
    { NoTokenIds, [type |-> "list", val |-> <<1, 2>>], [type |-> "int", val |-> <<>>] }

\* what sys.stdin.read() finds: bytes it cannot decode, white space only,
\* text that is no JSON document, a JSON list, or a JSON object with or
\* without token_ids
ScriptInputs ==
    { [kind |-> "unreadable"], [kind |-> "blank"], [kind |-> "text"],
      [kind |-> "json", type |-> "list"],
      [kind |-> "json", type |-> "dict", has_token_ids |-> FALSE, token_ids |-> NoTokenIds] }
    \cup { [kind |-> "json", type |-> "dict", has_token_ids |-> TRUE, token_ids |-> t] :
             t \in TokenIdValues }

\* a line of output: a JSON object, or text that is none (a traceback)
JsonLine(obj) == [json |-> TRUE, obj |-> obj]
Traceback(e) == [json |-> FALSE, obj |-> [text |-> e]]

\* print(json.dumps({"error": ...}), file=sys.stderr); sys.exit(1)
ScriptFail(msg) ==
    script' = [script EXCEPT !.stderr = Append(@, JsonLine([error |-> msg])),
                             !.exit = 1,
                             !.pc = "exited"]

\* print(json.dumps(result)); main returns and the interpreter exits 0
ScriptSucceed(result) ==
    script' = [script EXCEPT !.stdout = Append(@, JsonLine(result)),
                             !.exit = 0,
                             !.pc = "exited"]

ScriptInit ==
    /\ pc = "import"
    /\ stdin = <<>>
    /\ line = NoLine
    /\ request_id = PyUnbound
    /\ tokenizer = [loaded |-> FALSE, enc |-> NoMemo, dec |-> NoMemo]
    /\ stdout = <<>>
    /\ stderr = <<>>
    /\ exitStatus = NotExited
    /\ consumed = <<>>
    /\ calls = <<>>
    /\ script \in [pc : {"import"}, name : ScriptNames, argc : 1..MaxArgc,
                   path_exists : BOOLEAN, input : ScriptInputs,
                   imported : {FALSE}, token_ids : {NoTokenIds},
                   stdout : {<<>>}, stderr : {<<>>}, exit : {NotExited}]

\* from transformers import AutoTokenizer, succeeding
ScriptImportOk ==
    /\ script.pc = "import"
    /\ script' = [script EXCEPT !.imported = TRUE, !.pc = "main"]
    /\ UNCHANGED workerVars

\* the import raising: traceback on stderr, exit status 1
ScriptImportFails ==
    /\ script.pc = "import"
    /\ script' = [script EXCEPT !.stderr = Append(@, Traceback("ImportError")),
                                !.exit = 1,
                                !.pc = "exited"]
    /\ UNCHANGED workerVars

\* if len(sys.argv) != 2
ScriptUsage ==
    /\ script.pc = "main"
    /\ script.argc # 2
    /\ ScriptFail(<<"Usage: ", script.name>>)
    /\ UNCHANGED workerVars

\* if not model_path.exists()
ScriptPathNotFound ==
    /\ script.pc = "main"
    /\ script.argc = 2
    /\ ~script.path_exists
    /\ ScriptFail(<<"Model path not found: ", "model_path">>)
    /\ UNCHANGED workerVars

ScriptArgsOk ==
    /\ script.pc = "main"
    /\ script.argc = 2
    /\ script.path_exists
    /\ script' = [script EXCEPT !.pc = "load"]
    /\ UNCHANGED workerVars

\* AutoTokenizer.from_pretrained returns
ScriptLoadOk ==
    /\ script.pc = "load"
    /\ script' = [script EXCEPT !.pc = "read"]
    /\ UNCHANGED workerVars

\* AutoTokenizer.from_pretrained raises
ScriptLoadFails ==
    /\ script.pc = "load"
    /\ ScriptFail(<<"Failed to load tokenizer: ", "LoadError">>)
    /\ UNCHANGED workerVars

\* nf_tokenize.py: input_text = sys.stdin.read().strip()
TokenizeRead ==
    /\ script.pc = "read"
    /\ script.name = "nf_tokenize"
    /\ CASE script.input.kind = "unreadable" ->
              ScriptFail(<<"Failed to read stdin: ", "UnicodeDecodeError">>)
         [] script.input.kind = "blank" ->
              ScriptFail(<<"Empty input", "">>)
         [] OTHER ->
              script' = [script EXCEPT !.pc = "run"]
    /\ UNCHANGED workerVars

\* DetokenizeRead with the exits caught by a bare except: the handler
\* reports a second error
DetokenizeRead_CatchesExit ==
    /\ script.pc = "read"
    /\ script.name = "nf_detokenize"
    /\ CASE script.input.kind = "unreadable" ->
              ScriptFail(<<"Failed to read stdin: ", "UnicodeDecodeError">>)
         [] script.input.kind = "blank" ->
              script' = [script EXCEPT
                           !.stderr = @ \o <<JsonLine([error |-> <<"Empty input", "">>]),
                                            JsonLine([error |-> <<"Failed to read stdin: ", "1">>])>>,
                           !.exit = 1,
                           !.pc = "exited"]
         [] script.input.kind = "text" ->
              ScriptFail(<<"Invalid JSON: ", "JSONDecodeError">>)
         [] script.input.kind = "json" /\ script.input.type # "dict" ->
              ScriptFail(<<"Failed to read stdin: ", "AttributeError">>)
         [] script.input.kind = "json" /\ script.input.type = "dict" ->
              IF ~script.input.has_token_ids \/ script.input.token_ids = NoTokenIds
              THEN script' = [script EXCEPT
                           !.stderr = @ \o <<JsonLine([error |-> <<"Missing 'token_ids' field", "">>]),
                                            JsonLine([error |-> <<"Failed to read stdin: ", "1">>])>>,
                           !.exit = 1,
                           !.pc = "exited"]
              ELSE script' = [script EXCEPT !.token_ids = script.input.token_ids,
                                            !.pc = "run"]
    /\ UNCHANGED workerVars

\* nf_detokenize.py: read stdin, json.loads, data.get("token_ids")
DetokenizeRead ==
    /\ script.pc = "read"
    /\ script.name = "nf_detokenize"
    /\ CASE script.input.kind = "unreadable" ->
              ScriptFail(<<"Failed to read stdin: ", "UnicodeDecodeError">>)
         [] script.input.kind = "blank" ->
              ScriptFail(<<"Empty input", "">>)
         [] script.input.kind = "text" ->
              ScriptFail(<<"Invalid JSON: ", "JSONDecodeError">>)
         [] script.input.kind = "json" /\ script.input.type # "dict" ->
              ScriptFail(<<"Failed to read stdin: ", "AttributeError">>)
         [] script.input.kind = "json" /\ script.input.type = "dict" ->
              IF ~script.input.has_token_ids \/ script.input.token_ids = NoTokenIds
              THEN ScriptFail(<<"Missing 'token_ids' field", "">>)
              ELSE script' = [script EXCEPT !.token_ids = script.input.token_ids,
                                            !.pc = "run"]
    /\ UNCHANGED workerVars

\* nf_tokenize.py: the tokenizer call and the result
TokenizeRun ==
    /\ script.pc = "run"
    /\ script.name = "nf_tokenize"
    /\ \E o \in EncodeOutcomes :
         IF o.raises
         THEN ScriptFail(<<"Tokenization failed: ", "CapabilityError">>)
         ELSE ScriptSucceed([token_ids |-> o.val,
                             attention_mask |-> [k \in 1..Len(o.val) |-> 1],
                             length |-> Len(o.val),
                             model |-> "model_path.name"])
    /\ UNCHANGED workerVars

\* nf_detokenize.py: tokenizer.decode, len(text), len(token_ids), the result
DetokenizeRun ==
    /\ script.pc = "run"
    /\ script.name = "nf_detokenize"
    /\ \E o \in DecodeOutcomes :
         IF o.raises
         THEN ScriptFail(<<"Detokenization failed: ", "CapabilityError">>)
         ELSE IF script.token_ids.type # "list"
         THEN ScriptFail(<<"Detokenization failed: ", "TypeError">>)
         ELSE ScriptSucceed([text |-> o.val,
                             length |-> Len(o.val),
                             num_tokens |-> Len(script.token_ids.val),
                             model |-> "model_path.name"])
    /\ UNCHANGED workerVars

ScriptNext ==
    \/ ScriptImportOk
    \/ ScriptImportFails
    \/ ScriptUsage
    \/ ScriptPathNotFound
    \/ ScriptArgsOk
    \/ ScriptLoadOk
    \/ ScriptLoadFails
    \/ TokenizeRead
    \/ DetokenizeRead
    \/ TokenizeRun
    \/ DetokenizeRun

ScriptSpec == ScriptInit /\ [][ScriptNext]_vars

(***************************************************************************)
(* C18: each run of nf_tokenize.py and nf_detokenize.py ends in exactly    *)
(* one of two outcomes: one JSON result object on stdout and exit status   *)
(* 0, or nothing on stdout, exactly one JSON object with an "error" field  *)
(* on stderr and exit status 1; no run reports more than one error or      *)
(* writes to stdout when it fails.                                         *)
(***************************************************************************)
ScriptEnded == script.pc = "exited"

ScriptResultOutcome ==
    /\ Len(script.stdout) = 1
    /\ script.stdout[1].json
    /\ "error" \notin DOMAIN script.stdout[1].obj
    /\ script.stderr = <<>>
    /\ script.exit = 0

ScriptErrorOutcome ==
    /\ script.stdout = <<>>
    /\ Len(script.stderr) = 1
    /\ script.stderr[1].json
    /\ "error" \in DOMAIN script.stderr[1].obj
    /\ script.exit = 1

\* the statement as claimed, for every run
C18_OneOutcomePerRun ==
    /\ Len(script.stderr) <= 1
    /\ Len(script.stdout) <= 1
    /\ ScriptEnded => (ScriptResultOutcome \/ ScriptErrorOutcome)
    /\ ~(ScriptResultOutcome /\ ScriptErrorOutcome)

\* C18 as amended: the two outcomes are those of the runs whose import of
\* the tokenizer library succeeds; a run whose import fails writes nothing
\* to stdout, one traceback that is no JSON object to stderr, and exits 1
C18_OneOutcomePerImportedRun ==
    /\ Len(script.stderr) <= 1
    /\ Len(script.stdout) <= 1
    /\ (ScriptEnded /\ script.imported) => (ScriptResultOutcome \/ ScriptErrorOutcome)
    /\ ~(ScriptResultOutcome /\ ScriptErrorOutcome)
    /\ ~ScriptEnded => (script.stdout = <<>> /\ script.stderr = <<>> /\ script.exit = NotExited)
    /\ (ScriptEnded /\ ~script.imported) =>
          /\ script.stdout = <<>>
          /\ Len(script.stderr) = 1
          /\ ~script.stderr[1].json
          /\ script.exit = 1

C18_Witness ==
    /\ ScriptEnded
    /\ script.imported
    /\ script.name = "nf_detokenize"
    /\ script.argc = 2
    /\ script.input.kind = "json" /\ script.input.type = "dict"
    /\ ~script.input.has_token_ids
    /\ ScriptErrorOutcome
====
